---- MODULE Spec2Model ----
(***************************************************************************)
(* A model of the media-stream processing core of video-subtool:           *)
(*   - DetectionService.classify_subtitle      (detection_service.py)      *)
(*   - FfmpegService.find_ffbin                (ffmpeg_service.py)         *)
(*   - FfmpegService.parse_streams and the strip plan                      *)
(*   - FfmpegService._run_ffmpeg_with_progress                             *)
(*   - FfmpegService.export_subtitle                                       *)
(*   - FfmpegService.remove_subtitles_and_replace (the swap sequence)      *)
(*                                                                         *)
(* Python's Optional[T] is modelled as a sequence of length 0 (None) or 1. *)
(* A str whose characters matter (a title) is a sequence of one-character  *)
(* strings.                                                                *)
(***************************************************************************)
EXTENDS Integers, Sequences, FiniteSets, TLC

VARIABLES
    \* ---- DetectionService.classify_subtitle: one call
    c_title, c_language, c_forced, c_result,
    \* ---- settings and filesystem seen by find_ffbin, and its last call
    prefer_bundled, path_setting, custom_file, vendor_file, system_path, found, origin,
    \* ---- remove_subtitles_and_replace: locals, position, the three paths
    \* (bak_before: what the .bak path held when the call began)
    \* rows: the table SubtitleController.get_stream_table returned for the file
    listing, keep, pr, keep_maps, maps, spc, orig, bak, tmp, failed, err, bak_before,
    rows,
    \* ---- export_subtitle: the file's subtitles, the argument, the commands
    \* run and the exit code of each
    e_subs, rel_sub_index, epc, cmds, exits, e_out,
    \* ---- _run_ffmpeg_with_progress: locals and the callback's history
    total, on_progress, nread, calls, last_reported, ppc, ret,
    input_file, p_cmd, p_err,
    \* ---- create_mkv: the base video's listing, the attached files, the defaults
    m_listing, audio_files, subtitle_files, default_audio_index,
    default_subtitle_index, mpc, m_cmd,
    \* ---- the batch: main window, BatchController, the workers and their threads
    video_list, batch_queue, progress_dialog, b_thread, b_worker, workers, gui, events

classifyVars == <<c_title, c_language, c_forced, c_result>>
resolveVars  == <<prefer_bundled, path_setting, custom_file, vendor_file, system_path, found,
                  origin>>
stripVars    == <<listing, keep, pr, keep_maps, maps, spc, orig, bak, tmp, failed, err,
                  bak_before, rows>>
exportVars   == <<e_subs, rel_sub_index, epc, cmds, exits, e_out>>
progressVars == <<total, on_progress, nread, calls, last_reported, ppc, ret,
                  input_file, p_cmd, p_err>>
mkvVars      == <<m_listing, audio_files, subtitle_files, default_audio_index,
                  default_subtitle_index, mpc, m_cmd>>
batchVars    == <<video_list, batch_queue, progress_dialog, b_thread, b_worker, workers,
                  gui, events>>
vars == <<classifyVars, resolveVars, stripVars, exportVars, progressVars, mkvVars,
          batchVars>>

\* what an action of one operation leaves alone
notClassify == <<resolveVars, stripVars, exportVars, progressVars, mkvVars,
                 batchVars>>
notResolve  == <<classifyVars, stripVars, exportVars, progressVars, mkvVars,
                 batchVars>>
notStrip    == <<classifyVars, exportVars, progressVars, mkvVars,
                 batchVars>>
notExport   == <<classifyVars, resolveVars, stripVars, progressVars, mkvVars,
                 batchVars>>
notProgress == <<classifyVars, resolveVars, stripVars, exportVars, mkvVars,
                 batchVars>>
notMkv      == <<classifyVars, resolveVars, stripVars, exportVars, progressVars,
                 batchVars>>
notBatch    == <<classifyVars, resolveVars, stripVars, exportVars, progressVars,
                 mkvVars>>

None == <<>>
Some(x) == <<x>>
IsNone(o) == Len(o) = 0
Val(o) == o[1]

Tools == {"ffmpeg", "ffprobe"}

(***************************************************************************)
(* Strings as character sequences: str.lower() and the `in` operator.      *)
(***************************************************************************)
UpperChars == <<"A","B","C","D","E","F","G","H","I","J","K","L","M",
                "N","O","P","Q","R","S","T","U","V","W","X","Y","Z">>
LowerChars == <<"a","b","c","d","e","f","g","h","i","j","k","l","m",
                "n","o","p","q","r","s","t","u","v","w","x","y","z">>

lower_char(ch) ==
    IF \E i \in 1..Len(UpperChars) : UpperChars[i] = ch
    THEN LowerChars[CHOOSE i \in 1..Len(UpperChars) : UpperChars[i] = ch]
    ELSE ch

lower(t) == [i \in 1..Len(t) |-> lower_char(t[i])]

\* k in t
contains(t, k) ==
    \E i \in 0..(Len(t) - Len(k)) : SubSeq(t, i + 1, i + Len(k)) = k

\* the list literal of classify_subtitle
KEYWORDS ==
    { <<"f","o","r","c","e","d">>, <<"z","w","a","n","g">>,
      <<"s","i","g","n","s">>, <<"s","o","n","g","s">> }

\* A buggy variant: the title is matched without lowering it.
classify_subtitle_case_sensitive(title, language, forced) ==
    IF forced THEN "forced"
    ELSE LET t == IF IsNone(title) THEN <<>> ELSE Val(title) IN
         IF \E k \in KEYWORDS : contains(t, k) THEN "forced" ELSE "full"

classify_subtitle(title, language, forced) ==
    IF forced THEN "forced"
    ELSE LET t == lower(IF IsNone(title) THEN <<>> ELSE Val(title)) IN
         IF \E k \in KEYWORDS : contains(t, k) THEN "forced" ELSE "full"

(***************************************************************************)
(* The titles, languages and flags the classifier is called with.          *)
(***************************************************************************)
TitleTexts ==
    { <<>>,
      <<"F","u","l","l"," ","D","u","b">>,
      <<"S","i","g","n","s"," ","&"," ","S","o","n","g","s">>,
      <<"F","O","R","C","E","D">>,
      <<"e","n","f","o","r","c","e","d","!">>,
      <<"Z","w","a","n","g","s","u","n","t","e","r","t","i","t","e","l">>,
      <<"s","i","g","n">>,
      <<"f","o","r","c"," ","e","d">>,
      <<"K","a","r","a","o","k","e"," ","S","O","N","G","S">>,
      <<"s","o","n","g">>,
      <<"E","n","g","l","i","s","h">> }

Titles == {None} \cup {Some(t) : t \in TitleTexts}
Languages == {None, Some("eng"), Some("forced"), Some("signs")}

ClassifyIdle ==
    /\ c_title = None /\ c_language = None /\ c_forced = FALSE /\ c_result = None

ClassifyInit ==
    /\ c_title \in Titles
    /\ c_language \in Languages
    /\ c_forced \in BOOLEAN
    /\ c_result = None

Classify ==
    /\ c_result = None
    /\ c_result' = Some(classify_subtitle(c_title, c_language, c_forced))
    /\ UNCHANGED <<c_title, c_language, c_forced>>
    /\ UNCHANGED notClassify

\* the caller passes the next stream's fields
ClassifyAgain ==
    /\ c_result # None
    /\ c_language' \in Languages \ {c_language}
    /\ c_result' = Some(classify_subtitle(c_title, c_language', c_forced))
    /\ UNCHANGED <<c_title, c_forced>>
    /\ UNCHANGED notClassify

ClassifyNext == Classify \/ ClassifyAgain

(***************************************************************************)
(* BinaryResolver: settings.custom_bin_path, FfmpegService._vendor_ffbin,  *)
(* shutil.which and FfmpegService.find_ffbin.  A path is <<source, name>>. *)
(***************************************************************************)
\* settings.use_bundled_preferred(): the value the settings give
use_bundled_preferred == prefer_bundled

\* the configured path, only if it is set and a file exists there
custom_bin_path(name) ==
    IF path_setting[name] /\ custom_file[name] THEN Some(<<"custom", name>>) ELSE None

\* <vendor dir>/<name>[.exe], only if it exists
vendor_ffbin(name) ==
    IF vendor_file[name] THEN Some(<<"vendor", name>>) ELSE None

\* shutil.which(name)
which(name) ==
    IF system_path[name] THEN Some(<<"system", name>>) ELSE None

Returned(p) == [outcome |-> "returned", path |-> p]
Raised(e) == [outcome |-> "raised", path |-> None, error |-> e]

\* A buggy variant: the order custom > system > bundled whatever the flag says.
pick_ffbin_ignoring_flag(prefer, custom, custom_ok, vendor, vendor_ok, system, system_ok) ==
    IF custom_ok THEN Returned(custom)
    ELSE IF system_ok THEN Returned(system)
    ELSE IF vendor_ok THEN Returned(vendor)
    ELSE Raised("FileNotFoundError")

\* the if/else ladder of find_ffbin
pick_ffbin(prefer, custom, custom_ok, vendor, vendor_ok, system, system_ok) ==
    IF prefer
    THEN IF vendor_ok THEN Returned(vendor)
         ELSE IF custom_ok THEN Returned(custom)
         ELSE IF system_ok THEN Returned(system)
         ELSE Raised("FileNotFoundError")
    ELSE IF custom_ok THEN Returned(custom)
         ELSE IF system_ok THEN Returned(system)
         ELSE IF vendor_ok THEN Returned(vendor)
         ELSE Raised("FileNotFoundError")

\* A buggy variant: the path of an earlier successful call is kept and reused.
find_ffbin_cached(name) ==
    IF found # None /\ Val(found).name = name /\ Val(found).outcome = "returned"
    THEN Returned(Val(found).path)
    ELSE LET custom == custom_bin_path(name)
             vendor == vendor_ffbin(name)
             system == which(name)
         IN  pick_ffbin(use_bundled_preferred,
                        custom, ~IsNone(custom) /\ custom_file[name],
                        vendor, ~IsNone(vendor) /\ vendor_file[name],
                        system, ~IsNone(system))

find_ffbin(name) ==
    LET prefer == use_bundled_preferred
        custom == custom_bin_path(name)
        vendor == vendor_ffbin(name)
        system == which(name)
        custom_ok == ~IsNone(custom) /\ custom_file[name]
        vendor_ok == ~IsNone(vendor) /\ vendor_file[name]
        system_ok == ~IsNone(system)
    IN  pick_ffbin(prefer, custom, custom_ok, vendor, vendor_ok, system, system_ok)

ResolveIdle ==
    /\ prefer_bundled = FALSE
    /\ path_setting = [n \in Tools |-> FALSE]
    /\ custom_file = [n \in Tools |-> FALSE]
    /\ vendor_file = [n \in Tools |-> FALSE]
    /\ system_path = [n \in Tools |-> TRUE]
    /\ found = None /\ origin = None

ResolveInit ==
    /\ prefer_bundled \in BOOLEAN
    /\ path_setting = [n \in Tools |-> FALSE]
    /\ custom_file = [n \in Tools |-> FALSE]
    /\ vendor_file \in [Tools -> BOOLEAN]
    /\ system_path \in [Tools -> BOOLEAN]
    /\ found = None /\ origin = None

\* the settings dialog stores the preference
SetPreferBundled ==
    /\ prefer_bundled' = ~prefer_bundled
    /\ UNCHANGED <<path_setting, custom_file, vendor_file, system_path, found, origin>>
    /\ UNCHANGED notResolve

\* the settings dialog stores or clears path_<name>
SetCustomPath(name) ==
    /\ path_setting' = [path_setting EXCEPT ![name] = ~@]
    /\ UNCHANGED <<prefer_bundled, custom_file, vendor_file, system_path, found, origin>>
    /\ UNCHANGED notResolve

\* the file at the configured path appears or disappears
ChangeCustomFile(name) ==
    /\ path_setting[name]
    /\ custom_file' = [custom_file EXCEPT ![name] = ~@]
    /\ UNCHANGED <<prefer_bundled, path_setting, vendor_file, system_path, found, origin>>
    /\ UNCHANGED notResolve

\* the vendored binary appears or disappears
ChangeVendorFile(name) ==
    /\ vendor_file' = [vendor_file EXCEPT ![name] = ~@]
    /\ UNCHANGED <<prefer_bundled, path_setting, custom_file, system_path, found, origin>>
    /\ UNCHANGED notResolve

\* the binary is installed on or removed from PATH
ChangeSystemPath(name) ==
    /\ system_path' = [system_path EXCEPT ![name] = ~@]
    /\ UNCHANGED <<prefer_bundled, path_setting, custom_file, vendor_file, found, origin>>
    /\ UNCHANGED notResolve

\* What holds of the candidates at the moment of a call (kept for the record).
Seen(name) ==
    [prefer |-> prefer_bundled,
     custom |-> path_setting[name] /\ custom_file[name],
     vendor |-> vendor_file[name],
     system |-> system_path[name]]

\* a call of find_ffbin (found and origin keep the last call only)
CallFindFfbin(name) ==
    /\ LET r == find_ffbin(name) IN
       found' = Some([name |-> name, outcome |-> r.outcome, path |-> r.path,
                      seen |-> Seen(name)])
    /\ origin' = None
    /\ UNCHANGED <<prefer_bundled, path_setting, custom_file, vendor_file, system_path>>
    /\ UNCHANGED notResolve

\* the label detect_origin returns
detect_origin ==
    LET prefer == use_bundled_preferred
        ff_custom == custom_bin_path("ffmpeg")
        fp_custom == custom_bin_path("ffprobe")
        has_custom == /\ ~IsNone(ff_custom) /\ custom_file["ffmpeg"]
                      /\ ~IsNone(fp_custom) /\ custom_file["ffprobe"]
        has_vendor == ~IsNone(vendor_ffbin("ffmpeg")) /\ ~IsNone(vendor_ffbin("ffprobe"))
        has_system == ~IsNone(which("ffmpeg")) /\ ~IsNone(which("ffprobe"))
    IN  IF prefer /\ has_vendor THEN "bundled"
        ELSE IF ~prefer /\ has_custom THEN "custom"
        ELSE IF has_system THEN "system"
        ELSE IF has_vendor THEN "bundled"
        ELSE "missing"

\* the settings page asks for the origin; what find_ffbin gives at that moment
\* is kept beside the label (found and origin keep the last call only)
CallDetectOrigin ==
    /\ origin' = Some([label |-> detect_origin,
                       seen |-> [n \in Tools |-> Seen(n)],
                       find |-> [n \in Tools |-> find_ffbin(n)]])
    /\ found' = None
    /\ UNCHANGED <<prefer_bundled, path_setting, custom_file, vendor_file, system_path>>
    /\ UNCHANGED notResolve

ResolveNext ==
    \/ SetPreferBundled
    \/ \E name \in Tools : SetCustomPath(name)
    \/ \E name \in Tools : ChangeCustomFile(name)
    \/ \E name \in Tools : ChangeVendorFile(name)
    \/ \E name \in Tools : ChangeSystemPath(name)
    \/ \E name \in Tools : CallFindFfbin(name)
    \/ CallDetectOrigin

(***************************************************************************)
(* StreamProbe and the strip plan.  An entry of ffprobe's "streams" list   *)
(* is [index, codec_type, title, language: Optional; forced: 0 or 1]; a    *)
(* -map selector "0:<letter>:<rel>" is the tuple <<0, letter, rel>>.       *)
(* codec_name and the default disposition are carried by the code but read *)
(* by none of the operations below, and are left out.                      *)
(***************************************************************************)
MaxStreams == 3

parse_streams(ffprobe_json) ==
    LET typed == SelectSeq(ffprobe_json, LAMBDA s : ~IsNone(s.codec_type)) IN
    [i \in 1..Len(typed) |->
        [index      |-> IF IsNone(typed[i].index) THEN -1 ELSE Val(typed[i].index),
         codec_type |-> Val(typed[i].codec_type),
         language   |-> typed[i].language,
         title      |-> typed[i].title,
         forced     |-> (typed[i].forced = 1)]]

ffmpeg_type_letter(codec_type) ==
    CASE codec_type = "video"      -> "v"
      [] codec_type = "audio"      -> "a"
      [] codec_type = "subtitle"   -> "s"
      [] codec_type = "data"       -> "d"
      [] codec_type = "attachment" -> "t"
      [] OTHER                     -> "d"

\* the loop of _relative_index_for_type from stream k on, i being its counter
RECURSIVE relative_index_scan(_, _, _, _, _)
relative_index_scan(streams, k, i, abs_index, codec_type) ==
    IF k > Len(streams) THEN 0
    ELSE LET i2 == IF streams[k].codec_type = codec_type THEN i + 1 ELSE i IN
         IF streams[k].index = abs_index THEN i2
         ELSE relative_index_scan(streams, k + 1, i2, abs_index, codec_type)

relative_index_for_type(streams, abs_index, codec_type) ==
    relative_index_scan(streams, 1, -1, abs_index, codec_type)

build_non_sub_maps(streams) ==
    LET rest == SelectSeq(streams, LAMBDA s : s.codec_type # "subtitle") IN
    [j \in 1..Len(rest) |->
        <<0, ffmpeg_type_letter(rest[j].codec_type),
          relative_index_for_type(streams, rest[j].index, rest[j].codec_type)>>]

\* x in xs, for a list
in_list(x, xs) == \E i \in 1..Len(xs) : xs[i] = x

\* the loop over pr.streams of remove_subtitles_and_replace from stream k on
RECURSIVE keep_scan(_, _, _, _, _)
keep_scan(streams, k, sub_rel, acc, kinds) ==
    IF k > Len(streams) THEN acc
    ELSE IF streams[k].codec_type = "subtitle"
         THEN LET cls == classify_subtitle(streams[k].title, streams[k].language,
                                           streams[k].forced) IN
              keep_scan(streams, k + 1, sub_rel + 1,
                        IF in_list(cls, kinds) THEN Append(acc, <<0, "s", sub_rel + 1>>)
                        ELSE acc,
                        kinds)
         ELSE keep_scan(streams, k + 1, sub_rel, acc, kinds)

\* A buggy variant: sub_rel counts the kept subtitles only.
RECURSIVE keep_scan_kept_only(_, _, _, _, _)
keep_scan_kept_only(streams, k, sub_rel, acc, kinds) ==
    IF k > Len(streams) THEN acc
    ELSE IF streams[k].codec_type = "subtitle"
              /\ in_list(classify_subtitle(streams[k].title, streams[k].language,
                                           streams[k].forced), kinds)
         THEN keep_scan_kept_only(streams, k + 1, sub_rel + 1,
                                  Append(acc, <<0, "s", sub_rel + 1>>), kinds)
         ELSE keep_scan_kept_only(streams, k + 1, sub_rel, acc, kinds)

build_keep_maps_kept_only(streams, keep_kinds) ==
    IF ~IsNone(keep_kinds) /\ Len(Val(keep_kinds)) > 0
    THEN keep_scan_kept_only(streams, 1, -1, <<>>, Val(keep_kinds))
    ELSE <<>>

\* keep_maps of remove_subtitles_and_replace; keep_kinds is Optional[List[str]]
build_keep_maps(streams, keep_kinds) ==
    IF ~IsNone(keep_kinds) /\ Len(Val(keep_kinds)) > 0
    THEN keep_scan(streams, 1, -1, <<>>, Val(keep_kinds))
    ELSE <<>>

\* s.language or "", s.title or ""
or_empty(opt, empty) == IF IsNone(opt) THEN empty ELSE Val(opt)

\* A buggy variant: the sub index is the position among all streams.
RECURSIVE table_scan_by_position(_, _, _, _)
table_scan_by_position(streams, k, sub_idx, acc) ==
    IF k > Len(streams) THEN acc
    ELSE IF streams[k].codec_type = "subtitle"
         THEN table_scan_by_position(streams, k + 1, sub_idx + 1,
                  Append(acc, [index |-> streams[k].index, sub_idx |-> sub_idx + 1,
                               language |-> or_empty(streams[k].language, ""),
                               title |-> or_empty(streams[k].title, <<>>),
                               cls |-> classify_subtitle(streams[k].title, streams[k].language,
                                                         streams[k].forced)]))
         ELSE table_scan_by_position(streams, k + 1, sub_idx + 1, acc)

\* the loop over pr.streams of get_stream_table from stream k on; a row is
\* (s.index, sub_idx, language, title, cls), the codec name and the default
\* flag of a stream not being part of the model
RECURSIVE table_scan(_, _, _, _)
table_scan(streams, k, sub_idx, acc) ==
    IF k > Len(streams) THEN acc
    ELSE IF streams[k].codec_type = "subtitle"
         THEN table_scan(streams, k + 1, sub_idx + 1,
                  Append(acc, [index |-> streams[k].index, sub_idx |-> sub_idx + 1,
                               language |-> or_empty(streams[k].language, ""),
                               title |-> or_empty(streams[k].title, <<>>),
                               cls |-> classify_subtitle(streams[k].title, streams[k].language,
                                                         streams[k].forced)]))
         ELSE table_scan(streams, k + 1, sub_idx, acc)

get_stream_table_by_position(streams) == table_scan_by_position(streams, 1, -1, <<>>)

\* rows of SubtitleController.get_stream_table, sub_idx starting at -1
get_stream_table(streams) == table_scan(streams, 1, -1, <<>>)

(***************************************************************************)
(* The listings ffprobe is taken to print.  ffprobe numbers its entries in *)
(* order; parse_streams allows for an entry without "index" or without     *)
(* "codec_type", so both are among the inputs.                             *)
(***************************************************************************)
SignsTitle == Some(<<"S","i","g","n","s">>)

EntryKinds ==
    {[codec_type |-> ct, title |-> None, language |-> None, forced |-> 0] :
        ct \in {Some("video"), Some("audio"), Some("data"), None}}
    \cup
    {[codec_type |-> Some("subtitle"), title |-> None, language |-> Some("eng"), forced |-> 0],
     [codec_type |-> Some("subtitle"), title |-> SignsTitle, language |-> Some("eng"), forced |-> 0],
     [codec_type |-> Some("subtitle"), title |-> None, language |-> None, forced |-> 1]}

Entry(kind, has_index, pos) ==
    [index |-> IF has_index THEN Some(pos) ELSE None,
     codec_type |-> kind.codec_type, title |-> kind.title,
     language |-> kind.language, forced |-> kind.forced]

\* the listing made of the given kinds of entry, each with or without its index
ListingOf(kinds, has) == [i \in 1..Len(kinds) |-> Entry(kinds[i], has[i], i - 1)]

\* keep_kinds as the callers pass it (strip_subs passes None or a one-element list)
KeepKinds == {None, Some(<<>>), Some(<<"forced">>), Some(<<"full">>)}

\* video, audio, a forced subtitle: the listing of the file that is swapped
SwapListing ==
    << Entry([codec_type |-> Some("video"), title |-> None, language |-> None, forced |-> 0], TRUE, 0),
       Entry([codec_type |-> Some("audio"), title |-> None, language |-> Some("eng"), forced |-> 0], TRUE, 1),
       Entry([codec_type |-> Some("subtitle"), title |-> None, language |-> Some("eng"), forced |-> 1], TRUE, 2) >>

StripIdle ==
    /\ listing = <<>> /\ keep = None /\ pr = None /\ keep_maps = <<>> /\ maps = <<>>
    /\ spc = "idle" /\ orig = "pristine" /\ bak = "absent" /\ tmp = "absent"
    /\ failed = {} /\ err = None /\ bak_before = "absent" /\ rows = None

StripLocalsInit ==
    /\ pr = None /\ keep_maps = <<>> /\ maps = <<>>
    /\ spc = "start" /\ orig = "pristine" /\ tmp = "absent"
    /\ failed = {} /\ err = None /\ rows = None

(***************************************************************************)
(* remove_subtitles_and_replace, step by step.  A path holds "absent",     *)
(* "pristine" (the file as it was), "muxed" (ffmpeg's complete output),    *)
(* "partial" (an incomplete write) or "stale" (a backup of an earlier run).*)
(* Every filesystem call either succeeds or raises (its name joins         *)
(* `failed`); err is the exception in flight or raised.                    *)
(***************************************************************************)
plumbing == <<listing, keep, bak_before, rows, prefer_bundled, path_setting, custom_file,
              vendor_file, system_path, found, origin>>

\* pr = self.probe_file(file): find_ffbin("ffprobe"), run ffprobe, parse_streams
StripProbe ==
    /\ spc = "start"
    /\ \/ /\ find_ffbin("ffprobe").outcome = "raised"
          /\ spc' = "raised" /\ err' = Some("FileNotFoundError") /\ pr' = pr
       \/ /\ find_ffbin("ffprobe").outcome = "returned"
          /\ \/ spc' = "raised" /\ err' = Some("CalledProcessError") /\ pr' = pr
             \/ spc' = "probed" /\ pr' = Some(parse_streams(listing)) /\ err' = err
    /\ UNCHANGED <<plumbing, keep_maps, maps, orig, bak, tmp, failed>>
    /\ UNCHANGED notStrip

\* keep_maps, find_ffbin("ffmpeg"), maps and cmd
StripPlan ==
    /\ spc = "probed"
    /\ keep_maps' = build_keep_maps(Val(pr), keep)
    /\ \/ /\ find_ffbin("ffmpeg").outcome = "raised"
          /\ spc' = "raised" /\ err' = Some("FileNotFoundError") /\ maps' = maps
       \/ /\ find_ffbin("ffmpeg").outcome = "returned"
          /\ spc' = "planned" /\ maps' = build_non_sub_maps(Val(pr)) /\ err' = err
    /\ UNCHANGED <<plumbing, pr, orig, bak, tmp, failed>>
    /\ UNCHANGED notStrip

\* SubtitleController.get_stream_table(file): its own probe_file, then the rows
GetStreamTable ==
    /\ spc # "idle" /\ IsNone(rows)
    /\ find_ffbin("ffprobe").outcome = "returned"
    /\ rows' = Some(get_stream_table(parse_streams(listing)))
    /\ UNCHANGED <<listing, keep, bak_before, pr, keep_maps, maps, spc, orig, bak, tmp, failed, err>>
    /\ UNCHANGED resolveVars
    /\ UNCHANGED notStrip

\* A buggy variant: the exit code of the mux is not looked at.
StripMuxIgnoringExit ==
    /\ spc = "planned"
    /\ spc' = "muxed" /\ tmp' \in {"muxed", "partial"} /\ err' = err
    /\ UNCHANGED <<plumbing, pr, keep_maps, maps, orig, bak, failed>>
    /\ UNCHANGED notStrip

\* self._run_ffmpeg_with_progress(cmd, ...): ffmpeg -y writes tmp
StripMux ==
    /\ spc = "planned"
    /\ \/ spc' = "muxed" /\ tmp' = "muxed" /\ err' = err
       \/ spc' = "raised" /\ tmp' \in {"absent", "partial"} /\ err' = Some("CalledProcessError")
    /\ UNCHANGED <<plumbing, pr, keep_maps, maps, orig, bak, failed>>
    /\ UNCHANGED notStrip

\* if backup.exists(): backup.unlink()
ClearStaleBackup ==
    /\ spc = "muxed"
    /\ \/ spc' = "cleared" /\ bak' = "absent" /\ UNCHANGED <<failed, err>>
       \/ /\ bak # "absent"
          /\ spc' = "raised" /\ failed' = failed \cup {"unlink_stale"}
          /\ err' = Some("unlink_stale") /\ bak' = bak
    /\ UNCHANGED <<plumbing, pr, keep_maps, maps, orig, tmp>>
    /\ UNCHANGED notStrip

\* A buggy variant: the original is deleted instead of renamed to the backup.
RenameToBackupByDelete ==
    /\ spc = "cleared"
    /\ \/ spc' = "backed_up" /\ orig' = "absent" /\ UNCHANGED <<bak, failed, err>>
       \/ /\ spc' = "raised" /\ failed' = failed \cup {"rename_backup"}
          /\ err' = Some("rename_backup") /\ UNCHANGED <<orig, bak>>
    /\ UNCHANGED <<plumbing, pr, keep_maps, maps, tmp>>
    /\ UNCHANGED notStrip

\* file.replace(backup)
RenameToBackup ==
    /\ spc = "cleared"
    /\ \/ spc' = "backed_up" /\ bak' = orig /\ orig' = "absent" /\ UNCHANGED <<failed, err>>
       \/ /\ spc' = "raised" /\ failed' = failed \cup {"rename_backup"}
          /\ err' = Some("rename_backup") /\ UNCHANGED <<orig, bak>>
    /\ UNCHANGED <<plumbing, pr, keep_maps, maps, tmp>>
    /\ UNCHANGED notStrip

\* try: tmp.replace(file)
RenameTmp ==
    /\ spc = "backed_up"
    /\ \/ spc' = "swapped" /\ orig' = tmp /\ tmp' = "absent" /\ UNCHANGED <<failed, err>>
       \/ /\ spc' = "rollback" /\ failed' = failed \cup {"rename_tmp"}
          /\ err' = Some("rename_tmp")
          /\ orig' \in {"absent", "partial"} /\ tmp' = tmp
    /\ UNCHANGED <<plumbing, pr, keep_maps, maps, bak>>
    /\ UNCHANGED notStrip

\* A buggy variant: the backup is left in place on success.
UnlinkBackupSkipped ==
    /\ spc = "swapped"
    /\ spc' = "returned"
    /\ UNCHANGED <<plumbing, pr, keep_maps, maps, orig, bak, tmp, failed, err>>
    /\ UNCHANGED notStrip

\* backup.unlink(missing_ok=True), still inside the try; then return file
UnlinkBackup ==
    /\ spc = "swapped"
    /\ \/ spc' = "returned" /\ bak' = "absent" /\ UNCHANGED <<failed, err>>
       \/ /\ spc' = "rollback" /\ failed' = failed \cup {"unlink_backup"}
          /\ err' = Some("unlink_backup") /\ bak' = bak
    /\ UNCHANGED <<plumbing, pr, keep_maps, maps, orig, tmp>>
    /\ UNCHANGED notStrip

\* except Exception: if file.exists(): file.unlink(missing_ok=True)
RollbackUnlink ==
    /\ spc = "rollback"
    /\ \/ spc' = "restoring" /\ orig' = "absent" /\ UNCHANGED <<failed, err>>
       \/ /\ orig # "absent"
          /\ spc' = "raised" /\ failed' = failed \cup {"rollback_unlink"}
          /\ err' = Some("rollback_unlink") /\ orig' = orig
    /\ UNCHANGED <<plumbing, pr, keep_maps, maps, bak, tmp>>
    /\ UNCHANGED notStrip

\* A buggy variant: the backup is not renamed back before the error is raised.
RollbackRestoreSkipped ==
    /\ spc = "restoring"
    /\ spc' = "raised"
    /\ UNCHANGED <<plumbing, pr, keep_maps, maps, orig, bak, tmp, failed, err>>
    /\ UNCHANGED notStrip

\* A buggy variant: the backup is renamed back and the error is swallowed.
RollbackRestoreSwallowed ==
    /\ spc = "restoring"
    /\ spc' = "returned" /\ orig' = bak /\ bak' = "absent" /\ err' = None
    /\ UNCHANGED <<plumbing, pr, keep_maps, maps, tmp, failed>>
    /\ UNCHANGED notStrip

\* backup.replace(file); raise
RollbackRestore ==
    /\ spc = "restoring"
    /\ \/ spc' = "raised" /\ orig' = bak /\ bak' = "absent" /\ UNCHANGED <<failed, err>>
       \/ /\ spc' = "raised" /\ failed' = failed \cup {"rollback_rename"}
          /\ err' = Some("rollback_rename") /\ UNCHANGED <<orig, bak>>
    /\ UNCHANGED <<plumbing, pr, keep_maps, maps, tmp>>
    /\ UNCHANGED notStrip

SwapPositions == {"muxed", "cleared", "backed_up", "swapped", "rollback", "restoring"}

\* the process is killed between two filesystem steps of the swap
Interrupt ==
    /\ spc \in SwapPositions
    /\ spc' = "killed"
    /\ UNCHANGED <<plumbing, pr, keep_maps, maps, orig, bak, tmp, failed, err>>
    /\ UNCHANGED notStrip

(***************************************************************************)
(* ProgressRunner: _run_ffmpeg_with_progress.  total is what               *)
(* probe_duration_seconds returned (Optional, whole seconds here); a line  *)
(* of stderr is None (no time= marker) or Some(<<h, m, s>>), the groups of *)
(* _TIME_RE.  cur / total * 100 is computed on integers: the float         *)
(* rounding of the code is not modelled.                                   *)
(***************************************************************************)
MaxLines == 3

StderrLines == {None, Some(<<0, 0, 0>>), Some(<<0, 0, 5>>), Some(<<0, 0, 9>>),
                Some(<<0, 0, 10>>), Some(<<0, 1, 0>>)}

time_to_seconds(h, m, s) == h * 3600 + m * 60 + s

max2(a, b) == IF a >= b THEN a ELSE b
min2(a, b) == IF a <= b THEN a ELSE b

\* pct = max(0, min(100, int(cur / total * 100)))
percent(cur, tot) == max2(0, min2(100, (cur * 100) \div tot))

\* Python's truth value of an Optional[float]
truthy(tot) == ~IsNone(tot) /\ Val(tot) # 0

\* what subprocess.check_output of the duration query can end with: an
\* exception (the tool does not start or exits non-zero) or its output text
ProbeOutputs ==
    {[raised |-> TRUE, text |-> ""], [raised |-> FALSE, text |-> ""],
     [raised |-> FALSE, text |-> "N/A"], [raised |-> FALSE, text |-> "0.0"],
     [raised |-> FALSE, text |-> "10.0"]}

\* float(txt): the value of a numeric text, ValueError for any other
float(txt) ==
    IF txt = "0.0" THEN Returned(0)
    ELSE IF txt = "10.0" THEN Returned(10)
    ELSE Raised("ValueError")

\* the try block of probe_duration_seconds, after ffprobe was resolved
probe_duration_seconds(out) ==
    IF out.raised THEN None
    ELSE IF out.text = "" THEN None
    ELSE IF float(out.text).outcome = "raised" THEN None
    ELSE Some(float(out.text).path)

\* the command lines handed to the runner
Cmds == {<<"ffmpeg", "-y", "-i", "movie.mkv", "movie.tmp.mkv">>,
         <<"ffmpeg", "-y", "-i", "movie.mkv", "movie.sub0.srt">>}

\* subprocess.CalledProcessError(ret, cmd): output and stderr keep their default
CalledProcessError(returncode, cmd) ==
    [type |-> "CalledProcessError", returncode |-> Some(returncode), cmd |-> Some(cmd),
     output |-> None, stderr |-> None]

FileNotFoundError ==
    [type |-> "FileNotFoundError", returncode |-> None, cmd |-> None,
     output |-> None, stderr |-> None]

ProgressIdle ==
    /\ total = None /\ on_progress = FALSE /\ nread = 0 /\ calls = <<>>
    /\ last_reported = -1 /\ ppc = "idle" /\ ret = None
    /\ input_file = FALSE /\ p_cmd = <<>> /\ p_err = None

ProgressInit ==
    /\ total = None /\ on_progress \in BOOLEAN /\ nread = 0 /\ calls = <<>>
    /\ last_reported = -1 /\ ppc = "start" /\ ret = None
    /\ input_file \in BOOLEAN /\ p_cmd \in Cmds /\ p_err = None

\* total = None; if input_file is not None: total = self.probe_duration_seconds(input_file)
ProbeDuration ==
    /\ ppc = "start"
    /\ IF ~input_file
       THEN total' = None /\ ppc' = "probed" /\ p_err' = p_err
       ELSE IF find_ffbin("ffprobe").outcome = "raised"
            THEN total' = total /\ ppc' = "raised" /\ p_err' = Some(FileNotFoundError)
            ELSE /\ \E out \in ProbeOutputs : total' = probe_duration_seconds(out)
                 /\ ppc' = "probed" /\ p_err' = p_err
    /\ UNCHANGED <<on_progress, nread, calls, last_reported, ret, input_file, p_cmd>>
    /\ UNCHANGED notProgress

\* Popen; last_reported = -1; if on_progress and total: on_progress(0)
RunStart ==
    /\ ppc = "probed"
    /\ ppc' = "reading"
    /\ last_reported' = -1
    /\ calls' = IF on_progress /\ truthy(total) THEN Append(calls, 0) ELSE calls
    /\ UNCHANGED <<total, on_progress, nread, ret, input_file, p_cmd, p_err>>
    /\ UNCHANGED notProgress

\* one iteration of: for line in proc.stderr
ReadLine(line) ==
    /\ ppc = "reading"
    /\ nread < MaxLines
    /\ nread' = nread + 1
    /\ IF ~IsNone(line) /\ truthy(total) /\ Val(total) > 0
       THEN LET cur == time_to_seconds(Val(line)[1], Val(line)[2], Val(line)[3])
                pct == percent(cur, Val(total))
            IN  IF pct # last_reported
                THEN /\ last_reported' = pct
                     /\ calls' = IF on_progress THEN Append(calls, pct) ELSE calls
                ELSE UNCHANGED <<last_reported, calls>>
       ELSE UNCHANGED <<last_reported, calls>>
    /\ UNCHANGED <<total, on_progress, ppc, ret, input_file, p_cmd, p_err>>
    /\ UNCHANGED notProgress

\* stderr is at its end; finally: ret = proc.wait()
ProcessExit ==
    /\ ppc = "reading"
    /\ ppc' = "exited"
    /\ ret' \in {Some(0), Some(1)}
    /\ UNCHANGED <<total, on_progress, nread, calls, last_reported, input_file, p_cmd, p_err>>
    /\ UNCHANGED notProgress

\* A buggy variant: the final 100 is reported for a clean exit only.
FinalCallbackOnSuccessOnly ==
    /\ ppc = "exited"
    /\ ppc' = "reported"
    /\ calls' = IF on_progress /\ Val(ret) = 0 THEN Append(calls, 100) ELSE calls
    /\ UNCHANGED <<total, on_progress, nread, last_reported, ret, input_file, p_cmd, p_err>>
    /\ UNCHANGED notProgress

\* if on_progress: on_progress(100)
FinalCallback ==
    /\ ppc = "exited"
    /\ ppc' = "reported"
    /\ calls' = IF on_progress THEN Append(calls, 100) ELSE calls
    /\ UNCHANGED <<total, on_progress, nread, last_reported, ret, input_file, p_cmd, p_err>>
    /\ UNCHANGED notProgress

\* if ret != 0: raise CalledProcessError(ret, cmd)
RunEnd ==
    /\ ppc = "reported"
    /\ IF Val(ret) # 0
       THEN ppc' = "raised" /\ p_err' = Some(CalledProcessError(Val(ret), p_cmd))
       ELSE ppc' = "returned" /\ p_err' = p_err
    /\ UNCHANGED <<total, on_progress, nread, calls, last_reported, ret, input_file, p_cmd>>
    /\ UNCHANGED notProgress

ProgressNext ==
    \/ ProbeDuration
    \/ RunStart
    \/ \E line \in StderrLines : ReadLine(line)
    \/ ProcessExit
    \/ FinalCallback
    \/ RunEnd

(***************************************************************************)
(* export_subtitle.  e_subs lists the file's subtitle streams, each with   *)
(* its codec family ("text" or "image"), language tag and forced flag; a   *)
(* command is [maps, codec, out]; an output path is the record of the      *)
(* parts its name is built from, [stem, sub, ext] for                      *)
(* <stem>.sub<sub>.<ext>.  ffmpeg exits non-zero when a -map selector      *)
(* matches no stream and when an image subtitle is to be written as srt;   *)
(* otherwise it may succeed or fail.  Each run of a command goes through   *)
(* _run_ffmpeg_with_progress, which resolves ffprobe before it starts      *)
(* ffmpeg.                                                                 *)
(***************************************************************************)
MaxSubs == 2
MaxRel == 3

SubKinds ==
    {[codec |-> c, language |-> Some("eng"), forced |-> f] :
        c \in {"text", "image"}, f \in BOOLEAN}
SubLists == UNION { [1..n -> SubKinds] : n \in 0..MaxSubs }

\* the exit codes ffmpeg can end with for a command on the file
ffmpeg_exit_codes(cmd, subs) ==
    IF \E i \in 1..Len(cmd.maps) : cmd.maps[i][3] >= Len(subs) THEN {1}
    ELSE IF cmd.codec = "srt" /\ subs[cmd.maps[1][3] + 1].codec = "image" THEN {1}
    ELSE {0, 1}

ExportIdle ==
    /\ e_subs = <<>> /\ rel_sub_index = 0 /\ epc = "idle" /\ cmds = <<>> /\ exits = <<>>
    /\ e_out = None

ExportInit ==
    /\ e_subs \in SubLists /\ rel_sub_index \in 0..MaxRel
    /\ epc = "start" /\ cmds = <<>> /\ exits = <<>> /\ e_out = None

\* ffmpeg = self.find_ffbin("ffmpeg"); out = out_dir / f"{base}.sub{rel_sub_index}.srt"
ExportResolve ==
    /\ epc = "start"
    /\ IF find_ffbin("ffmpeg").outcome = "raised"
       THEN epc' = "raised" /\ e_out' = e_out
       ELSE /\ epc' = "resolved"
            /\ e_out' = Some([stem |-> "movie", sub |-> rel_sub_index, ext |-> "srt"])
    /\ UNCHANGED <<e_subs, rel_sub_index, cmds, exits>>
    /\ UNCHANGED notExport

\* A buggy variant: a failing text-mode run is not retried.
ExportSrtNoRetry ==
    /\ epc = "resolved"
    /\ LET cmd == [maps |-> << <<0, "s", rel_sub_index>> >>, codec |-> "srt", out |-> Val(e_out)] IN
       IF find_ffbin("ffprobe").outcome = "raised"
       THEN epc' = "raised" /\ cmds' = cmds /\ exits' = exits
       ELSE /\ cmds' = Append(cmds, cmd)
            /\ \E code \in ffmpeg_exit_codes(cmd, e_subs) :
                  /\ exits' = Append(exits, code)
                  /\ epc' = IF code = 0 THEN "returned" ELSE "raised"
    /\ UNCHANGED <<e_subs, rel_sub_index, e_out>>
    /\ UNCHANGED notExport

\* the first command: -map 0:s:<rel> -c:s srt; only CalledProcessError is caught
ExportSrt ==
    /\ epc = "resolved"
    /\ LET cmd == [maps |-> << <<0, "s", rel_sub_index>> >>, codec |-> "srt", out |-> Val(e_out)] IN
       IF find_ffbin("ffprobe").outcome = "raised"
       THEN epc' = "raised" /\ cmds' = cmds /\ exits' = exits
       ELSE /\ cmds' = Append(cmds, cmd)
            /\ \E code \in ffmpeg_exit_codes(cmd, e_subs) :
                  /\ exits' = Append(exits, code)
                  /\ epc' = IF code = 0 THEN "returned" ELSE "retry"
    /\ UNCHANGED <<e_subs, rel_sub_index, e_out>>
    /\ UNCHANGED notExport

\* A buggy variant: the retry falls back to the first subtitle stream.
ExportCopyFirstStream ==
    /\ epc = "retry"
    /\ LET out == [Val(e_out) EXCEPT !.ext = "sup"]
           cmd == [maps |-> << <<0, "s", 0>> >>, codec |-> "copy", out |-> out] IN
       /\ e_out' = Some(out)
       /\ IF find_ffbin("ffprobe").outcome = "raised"
          THEN epc' = "raised" /\ cmds' = cmds /\ exits' = exits
          ELSE /\ cmds' = Append(cmds, cmd)
               /\ \E code \in ffmpeg_exit_codes(cmd, e_subs) :
                     /\ exits' = Append(exits, code)
                     /\ epc' = IF code = 0 THEN "returned" ELSE "raised"
    /\ UNCHANGED <<e_subs, rel_sub_index>>
    /\ UNCHANGED notExport

\* except CalledProcessError: out = out.with_suffix(".sup"); -map 0:s:<rel> -c copy
ExportCopy ==
    /\ epc = "retry"
    /\ LET out == [Val(e_out) EXCEPT !.ext = "sup"]
           cmd == [maps |-> << <<0, "s", rel_sub_index>> >>, codec |-> "copy", out |-> out] IN
       /\ e_out' = Some(out)
       /\ IF find_ffbin("ffprobe").outcome = "raised"
          THEN epc' = "raised" /\ cmds' = cmds /\ exits' = exits
          ELSE /\ cmds' = Append(cmds, cmd)
               /\ \E code \in ffmpeg_exit_codes(cmd, e_subs) :
                     /\ exits' = Append(exits, code)
                     /\ epc' = IF code = 0 THEN "returned" ELSE "raised"
    /\ UNCHANGED <<e_subs, rel_sub_index>>
    /\ UNCHANGED notExport

ExportNext == ExportResolve \/ ExportSrt \/ ExportCopy

(***************************************************************************)
(* create_mkv.  m_listing is ffprobe's listing of the base video; the      *)
(* attached files are sequences of paths; a default index is Optional.     *)
(* The command is the record of its parts in the order they are appended:  *)
(* inputs (-i), maps (-map), codec (-c) and dispositions, each disposition *)
(* <<letter, ordinal, flag>> for "-disposition:<letter>:<ordinal> <flag>". *)
(***************************************************************************)
MaxTracks == 2
MaxFiles == 2

\* the entries the base video's listing is made of
MkvKinds ==
    {[codec_type |-> ct, title |-> None, language |-> None, forced |-> 0] :
        ct \in {Some("video"), Some("audio"), Some("subtitle"), None}}

\* the paths as the dialog collects them, in the order they were added
AudioFiles(n) == [i \in 1..n |-> <<"audio", i>>]
SubtitleFiles(n) == [i \in 1..n |-> <<"subtitle", i>>]

\* the default indexes a caller can pass: None, and integers in and out of range
DefaultIndexes == {None} \cup {Some(i) : i \in -1..(MaxTracks + MaxFiles)}

\* sum(1 for s in pr.streams if s.codec_type == <codec_type>)
count_streams(streams, codec_type) ==
    Cardinality({k \in 1..Len(streams) : streams[k].codec_type = codec_type})

\* A buggy variant: only the default track gets a disposition.
dispositions_default_only(letter, n, default_index) ==
    SelectSeq([i \in 1..n |-> <<letter, i - 1, "default">>],
              LAMBDA d : Some(d[2]) = default_index)

\* for i in range(n): cmd += [f"-disposition:{letter}:{i}", "default" if i == default_index else "0"]
dispositions(letter, n, default_index) ==
    [i \in 1..n |-> <<letter, i - 1, IF Some(i - 1) = default_index THEN "default" ELSE "0">>]

MkvIdle ==
    /\ m_listing = <<>> /\ audio_files = <<>> /\ subtitle_files = <<>>
    /\ default_audio_index = None /\ default_subtitle_index = None
    /\ mpc = "idle" /\ m_cmd = None

MkvInit ==
    /\ \E n \in 0..MaxTracks : \E kinds \in [1..n -> MkvKinds] :
          m_listing = ListingOf(kinds, [i \in 1..n |-> TRUE])
    /\ \E n \in 0..MaxFiles : audio_files = AudioFiles(n)
    /\ \E n \in 0..MaxFiles : subtitle_files = SubtitleFiles(n)
    /\ default_audio_index \in DefaultIndexes
    /\ default_subtitle_index \in DefaultIndexes
    /\ mpc = "start" /\ m_cmd = None

\* ffmpeg = self.find_ffbin("ffmpeg"); pr = self.probe_file(video_file)
MkvProbe ==
    /\ mpc = "start"
    /\ \/ /\ find_ffbin("ffmpeg").outcome = "raised" \/ find_ffbin("ffprobe").outcome = "raised"
          /\ mpc' = "raised"
       \/ /\ find_ffbin("ffmpeg").outcome = "returned"
          /\ find_ffbin("ffprobe").outcome = "returned"
          /\ mpc' \in {"raised", "probed"}
    /\ UNCHANGED <<m_listing, audio_files, subtitle_files, default_audio_index,
                   default_subtitle_index, m_cmd>>
    /\ UNCHANGED notMkv

\* the command, from all_inputs to the output file
MkvBuild ==
    /\ mpc = "probed"
    /\ mpc' = "built"
    /\ LET streams == parse_streams(m_listing)
           num_audio_in_video == count_streams(streams, "audio")
           num_subs_in_video == count_streams(streams, "subtitle")
           all_inputs == <<"video">> \o audio_files \o subtitle_files
           total_audio_streams == num_audio_in_video + Len(audio_files)
           total_subtitle_streams == num_subs_in_video + Len(subtitle_files)
       IN  m_cmd' = Some([inputs |-> all_inputs,
                          maps |-> [i \in 1..Len(all_inputs) |-> i - 1],
                          codec |-> "copy",
                          dispositions |->
                              dispositions("a", total_audio_streams, default_audio_index)
                              \o dispositions("s", total_subtitle_streams,
                                              default_subtitle_index),
                          out |-> "output"])
    /\ UNCHANGED <<m_listing, audio_files, subtitle_files, default_audio_index,
                   default_subtitle_index>>
    /\ UNCHANGED notMkv

\* self._run_ffmpeg_with_progress(cmd, input_file=video_file, ...); return output_file
MkvRun ==
    /\ mpc = "built"
    /\ mpc' \in {"returned", "raised"}
    /\ UNCHANGED <<m_listing, audio_files, subtitle_files, default_audio_index,
                   default_subtitle_index, m_cmd>>
    /\ UNCHANGED notMkv

MkvNext == MkvProbe \/ MkvBuild \/ MkvRun

(***************************************************************************)
(* The batch.  The GUI thread runs the main window and the BatchController *)
(* to completion, one handler at a time: gui is what is left of the        *)
(* handler in progress (empty while the event loop waits), events the      *)
(* finished signals of workers queued for the GUI thread.  A worker is     *)
(* [files, mode, export_rel_idx, stop, quit, at, i, processed, errors,     *)
(* begun, failed, signals]: stop is its _stop flag, quit says its thread   *)
(* was told to quit, at is where its thread stands: "starting" (started,   *)
(* run queued in its event loop), "loop" (run at the head of its loop),    *)
(* "file" (run inside a file's operation), "idle" (run returned, the event *)
(* loop waits), "finished".  b_thread and b_worker are the controller's    *)
(* _thread and _worker, 0 for None, else a position in workers.            *)
(* progress_dialog is "none" while the window has no progress dialog,      *)
(* "open" once it made one and "canceled" once the user canceled it.  The  *)
(* progress and error signals only repaint the window and are recorded     *)
(* where they are emitted.                                                 *)
(***************************************************************************)
MaxStarts == 2
MaxBatchFiles == 2

\* BatchStep as the main window queues it
BatchStep(mode, export_rel_idx) == [mode |-> mode, export_rel_idx |-> export_rel_idx]

\* the queues _on_start_clicked, _batch_strip_folder and _batch_export_folder build:
\* the export of all subtitles, a strip, the export of the selected subtitle and
\* then a strip (the export of the selected subtitle alone runs like a strip alone)
BatchQueues ==
    {<<BatchStep("export", None)>>,
     <<BatchStep("strip", None)>>,
     <<BatchStep("export", Some(0)), BatchStep("strip", None)>>}

\* BatchWorker.__init__
BatchWorker(files, step) ==
    [files |-> files, mode |-> step.mode, export_rel_idx |-> step.export_rel_idx,
     stop |-> FALSE, quit |-> FALSE, at |-> "starting", i |-> 0,
     processed |-> 0, errors |-> 0, begun |-> <<>>, failed |-> {}, signals |-> <<>>]

\* BatchController.stop, as the steps left to the GUI thread; each step carries
\* the caller of stop and the number of workers made when the caller began
StopSteps(caller) ==
    << <<"stop_req", caller, Len(workers)>>, <<"stop_wait", caller, Len(workers)>> >>

\* BatchController.start, as the steps left to the GUI thread
StartSteps(step) == StopSteps("start") \o << <<"launch", step>> >>

\* MainWindow._start_next_batch_step, called with what is left of the handler
start_next_batch_step(rest) ==
    IF batch_queue = <<>>
    THEN /\ progress_dialog' = "none"
         /\ batch_queue' = batch_queue
         /\ gui' = rest
    ELSE /\ progress_dialog' = progress_dialog
         /\ batch_queue' = Tail(batch_queue)
         /\ gui' = StartSteps(Head(batch_queue)) \o rest

BatchIdle ==
    /\ video_list = 0 /\ batch_queue = <<>> /\ progress_dialog = "none"
    /\ b_thread = 0 /\ b_worker = 0 /\ workers = <<>> /\ gui = <<>> /\ events = <<>>

BatchInit ==
    /\ video_list \in 1..MaxBatchFiles /\ batch_queue = <<>> /\ progress_dialog = "none"
    /\ b_thread = 0 /\ b_worker = 0 /\ workers = <<>> /\ gui = <<>> /\ events = <<>>

\* the user starts a batch: the queue is built, the dialog made, the first step started
StartClicked(queue) ==
    /\ gui = <<>>
    /\ Len(workers) + Len(queue) <= MaxStarts
    /\ progress_dialog' = "open"
    /\ batch_queue' = Tail(queue)
    /\ gui' = StartSteps(Head(queue))
    /\ UNCHANGED <<video_list, b_thread, b_worker, workers, events>>
    /\ UNCHANGED notBatch

\* the user cancels in the progress dialog: canceled -> BatchController.stop
CancelClicked ==
    /\ gui = <<>>
    /\ progress_dialog # "none"
    /\ progress_dialog' = "canceled"
    /\ gui' = StopSteps("cancel")
    /\ UNCHANGED <<video_list, batch_queue, b_thread, b_worker, workers, events>>
    /\ UNCHANGED notBatch

\* the GUI event loop delivers a worker's finished signal: _on_worker_finished
DeliverFinished ==
    /\ gui = <<>>
    /\ events # <<>>
    /\ gui' = << <<"emit_finished", Head(events).processed, Head(events).errors>> >>
              \o StopSteps("finished")
    /\ events' = Tail(events)
    /\ UNCHANGED <<video_list, batch_queue, progress_dialog, b_thread, b_worker, workers>>
    /\ UNCHANGED notBatch

\* self.finished.emit(processed, errors): _on_batch_finished runs in the emission
EmitFinished ==
    /\ gui # <<>>
    /\ Head(gui)[1] = "emit_finished"
    /\ start_next_batch_step(Tail(gui))
    /\ UNCHANGED <<video_list, b_thread, b_worker, workers, events>>
    /\ UNCHANGED notBatch

\* stop, first half: self._worker.stop(); self._thread.quit()
StopRequest ==
    /\ gui # <<>>
    /\ Head(gui)[1] = "stop_req"
    /\ gui' = Tail(gui)
    /\ workers' = [w \in 1..Len(workers) |->
                      [workers[w] EXCEPT !.stop = @ \/ w = b_worker,
                                         !.quit = @ \/ w = b_thread]]
    /\ UNCHANGED <<video_list, batch_queue, progress_dialog, b_thread, b_worker, events>>
    /\ UNCHANGED notBatch

\* A buggy variant: stop does not wait for the thread.
StopWithoutWait ==
    /\ gui # <<>>
    /\ Head(gui)[1] = "stop_wait"
    /\ gui' = Tail(gui)
    /\ b_thread' = 0
    /\ b_worker' = 0
    /\ UNCHANGED <<video_list, batch_queue, progress_dialog, workers, events>>
    /\ UNCHANGED notBatch

\* stop, second half: self._thread.wait() returns; _thread = None; _worker = None
StopWait ==
    /\ gui # <<>>
    /\ Head(gui)[1] = "stop_wait"
    /\ b_thread # 0 => workers[b_thread].at = "finished"
    /\ gui' = Tail(gui)
    /\ b_thread' = 0
    /\ b_worker' = 0
    /\ UNCHANGED <<video_list, batch_queue, progress_dialog, workers, events>>
    /\ UNCHANGED notBatch

\* start after its stop: thread and worker are made, connected, stored and started
Launch ==
    /\ gui # <<>>
    /\ Head(gui)[1] = "launch"
    /\ gui' = Tail(gui)
    /\ workers' = Append(workers, BatchWorker(video_list, Head(gui)[2]))
    /\ b_thread' = Len(workers) + 1
    /\ b_worker' = Len(workers) + 1
    /\ UNCHANGED <<video_list, batch_queue, progress_dialog, events>>
    /\ UNCHANGED notBatch

\* what is left alone by a step of a worker's thread
guiSide == <<video_list, batch_queue, progress_dialog, b_thread, b_worker, gui>>

\* int(k / total * 100)
batch_percent(k, total_files) == (k * 100) \div total_files

\* the operation on a file raises into run's handler: strip_subs and the export of
\* the selected index pass their failure on, the attempt over 0..9 swallows its own
raises_into_run(worker, fails) ==
    fails /\ ~(worker.mode = "export" /\ IsNone(worker.export_rel_idx))

\* the thread's event loop runs the queued call of worker.run: processed = 0, errors = 0
RunBegin(w) ==
    /\ workers[w].at = "starting"
    /\ workers' = [workers EXCEPT ![w].at = "loop"]
    /\ UNCHANGED <<guiSide, events>>
    /\ UNCHANGED notBatch

\* A buggy variant: the loop never looks at the stop flag.
LoopHeadIgnoringStop(w) ==
    LET me == workers[w] IN
    /\ me.at = "loop"
    /\ IF me.i = me.files
       THEN /\ workers' = [workers EXCEPT
                   ![w].at = "idle",
                   ![w].signals = Append(@, <<"finished", me.processed, me.errors>>)]
            /\ events' = Append(events, [worker |-> w, processed |-> me.processed,
                                         errors |-> me.errors])
       ELSE /\ workers' = [workers EXCEPT
                   ![w].at = "file",
                   ![w].i = me.i + 1,
                   ![w].begun = Append(@, me.i + 1),
                   ![w].signals = Append(@, <<"progress", batch_percent(me.i, me.files)>>)]
            /\ events' = events
    /\ UNCHANGED guiSide
    /\ UNCHANGED notBatch

\* the head of the for loop: the next file, the stop test, the first progress signal;
\* after the loop, self.finished.emit(processed, errors)
LoopHead(w) ==
    LET me == workers[w] IN
    /\ me.at = "loop"
    /\ IF me.i = me.files \/ me.stop
       THEN /\ workers' = [workers EXCEPT
                   ![w].at = "idle",
                   ![w].i = IF me.i = me.files THEN me.i ELSE me.i + 1,
                   ![w].signals = Append(@, <<"finished", me.processed, me.errors>>)]
            /\ events' = Append(events, [worker |-> w, processed |-> me.processed,
                                         errors |-> me.errors])
       ELSE /\ workers' = [workers EXCEPT
                   ![w].at = "file",
                   ![w].i = me.i + 1,
                   ![w].begun = Append(@, me.i + 1),
                   ![w].signals = Append(@, <<"progress", batch_percent(me.i, me.files)>>)]
            /\ events' = events
    /\ UNCHANGED guiSide
    /\ UNCHANGED notBatch

\* the file's operation ends: processed += 1, or errors += 1 and the error signal;
\* finally the second progress signal
FileDone(w) ==
    LET me == workers[w] IN
    /\ me.at = "file"
    /\ \E fails \in BOOLEAN :
          LET raised == raises_into_run(me, fails) IN
          workers' = [workers EXCEPT
              ![w].at = "loop",
              ![w].failed = IF fails THEN @ \cup {me.i} ELSE @,
              ![w].processed = IF raised THEN @ ELSE @ + 1,
              ![w].errors = IF raised THEN @ + 1 ELSE @,
              ![w].signals =
                  (IF raised THEN Append(@, <<"error", me.i>>) ELSE @)
                  \o << <<"progress", batch_percent(me.i, me.files)>> >>]
    /\ UNCHANGED <<guiSide, events>>
    /\ UNCHANGED notBatch

\* the thread's event loop ends after quit: at once when run was never taken up,
\* else when run has returned
ThreadFinish(w) ==
    /\ workers[w].quit
    /\ workers[w].at \in {"starting", "idle"}
    /\ workers' = [workers EXCEPT ![w].at = "finished"]
    /\ UNCHANGED <<guiSide, events>>
    /\ UNCHANGED notBatch

BatchNext ==
    \/ \E queue \in BatchQueues : StartClicked(queue)
    \/ CancelClicked
    \/ DeliverFinished
    \/ EmitFinished
    \/ StopRequest
    \/ StopWait
    \/ Launch
    \/ \E w \in 1..Len(workers) : RunBegin(w)
    \/ \E w \in 1..Len(workers) : LoopHead(w)
    \/ \E w \in 1..Len(workers) : FileDone(w)
    \/ \E w \in 1..Len(workers) : ThreadFinish(w)

(***************************************************************************)
(* The specifications: one per operation, the other operations at rest.    *)
(***************************************************************************)
InitClassify ==
    ClassifyInit /\ ResolveIdle /\ StripIdle /\ ExportIdle /\ ProgressIdle /\ MkvIdle /\ BatchIdle

\* DetectionService.classify_subtitle on every title, language and flag
SpecClassify == InitClassify /\ [][ClassifyNext]_vars

InitResolve ==
    ClassifyIdle /\ ResolveInit /\ StripIdle /\ ExportIdle /\ ProgressIdle /\ MkvIdle /\ BatchIdle

\* find_ffbin called again and again while settings and files change
SpecResolve == InitResolve /\ [][ResolveNext]_vars

InitPlan ==
    /\ ClassifyIdle /\ ResolveIdle /\ ExportIdle /\ ProgressIdle /\ MkvIdle /\ BatchIdle
    /\ \E n \in 0..MaxStreams :
          \E kinds \in [1..n -> EntryKinds], has \in [1..n -> BOOLEAN] :
             listing = ListingOf(kinds, has)
    /\ keep \in KeepKinds /\ bak = "absent" /\ bak_before = bak
    /\ StripLocalsInit

PlanNext == StripProbe \/ StripPlan \/ GetStreamTable

\* probe and plan of remove_subtitles_and_replace on every listing
SpecPlan == InitPlan /\ [][PlanNext]_vars

InitReplace ==
    /\ ClassifyIdle /\ ExportIdle /\ ProgressIdle /\ MkvIdle /\ BatchIdle
    /\ prefer_bundled \in BOOLEAN
    /\ path_setting = [n \in Tools |-> FALSE]
    /\ custom_file = [n \in Tools |-> FALSE]
    /\ vendor_file = [n \in Tools |-> FALSE]
    /\ system_path \in [Tools -> BOOLEAN]
    /\ found = None /\ origin = None
    /\ listing = SwapListing /\ keep \in KeepKinds /\ bak \in {"absent", "stale"}
    /\ bak_before = bak
    /\ StripLocalsInit

ReplaceNext ==
    \/ StripProbe
    \/ StripPlan
    \/ StripMux
    \/ ClearStaleBackup
    \/ RenameToBackup
    \/ RenameTmp
    \/ UnlinkBackup
    \/ RollbackUnlink
    \/ RollbackRestore
    \/ Interrupt

\* remove_subtitles_and_replace from probe to swap, every filesystem call failing or not
SpecReplace == InitReplace /\ [][ReplaceNext]_vars

InitExport ==
    /\ ClassifyIdle /\ StripIdle /\ ProgressIdle /\ MkvIdle /\ BatchIdle
    /\ prefer_bundled = FALSE
    /\ path_setting = [n \in Tools |-> FALSE]
    /\ custom_file = [n \in Tools |-> FALSE]
    /\ vendor_file = [n \in Tools |-> FALSE]
    /\ system_path \in [Tools -> BOOLEAN]
    /\ found = None /\ origin = None
    /\ ExportInit

\* export_subtitle on every file and relative index
SpecExport == InitExport /\ [][ExportNext]_vars

InitProgress ==
    /\ ClassifyIdle /\ StripIdle /\ ExportIdle /\ MkvIdle /\ BatchIdle
    /\ prefer_bundled = FALSE
    /\ path_setting = [n \in Tools |-> FALSE]
    /\ custom_file = [n \in Tools |-> FALSE]
    /\ vendor_file = [n \in Tools |-> FALSE]
    /\ system_path \in {[n \in Tools |-> TRUE], [n \in Tools |-> n = "ffmpeg"]}
    /\ found = None /\ origin = None
    /\ ProgressInit

\* one run of _run_ffmpeg_with_progress on every stderr text
SpecProgress == InitProgress /\ [][ProgressNext]_vars

InitMkv ==
    /\ ClassifyIdle /\ StripIdle /\ ExportIdle /\ ProgressIdle /\ BatchIdle
    /\ prefer_bundled = FALSE
    /\ path_setting = [n \in Tools |-> FALSE]
    /\ custom_file = [n \in Tools |-> FALSE]
    /\ vendor_file = [n \in Tools |-> FALSE]
    /\ system_path \in {[n \in Tools |-> TRUE], [n \in Tools |-> n = "ffmpeg"]}
    /\ found = None /\ origin = None
    /\ MkvInit

\* create_mkv on every base video, attachment count and default index
SpecMkv == InitMkv /\ [][MkvNext]_vars

InitBatch ==
    /\ ClassifyIdle /\ ResolveIdle /\ StripIdle /\ ExportIdle /\ ProgressIdle /\ MkvIdle
    /\ BatchInit

\* the main window, the controller and the workers' threads, interleaved
SpecBatch == InitBatch /\ [][BatchNext]_vars

Spec == SpecReplace

(***************************************************************************)
(* The properties.                                                         *)
(***************************************************************************)
SwapErrors == {"unlink_stale", "rename_backup", "rename_tmp", "unlink_backup",
               "rollback_unlink", "rollback_rename"}

\* the mux exited 0 and the swap sequence was entered
MuxSucceeded ==
    \/ spc \in SwapPositions \cup {"returned"}
    \/ spc = "raised" /\ ~IsNone(err) /\ Val(err) \in SwapErrors

StripEnded == spc \in {"returned", "raised"}

C2_RollbackRestoresAndReraises ==
    (StripEnded /\ failed = {"rename_tmp"})
        => /\ spc = "raised"
           /\ err = Some("rename_tmp")
           /\ orig = "pristine"
           /\ bak = "absent"

C2_Witness ==
    spc = "raised" /\ err = Some("rename_tmp") /\ bak = "absent" /\ orig = "pristine"

\* C3: a process killed between two filesystem steps of the swap leaves the
\* original path holding the pristine original or the complete muxed file.
C3_InterruptLeavesOriginalWhole ==
    spc = "killed" => orig \in {"pristine", "muxed"}

\* the positions of the non-subtitle streams, and the same-type streams before one
IsNonSub(streams, k) == streams[k].codec_type # "subtitle"
NonSubBefore(streams, k) == Cardinality({i \in 1..(k - 1) : IsNonSub(streams, i)})
SameTypeBefore(streams, k) ==
    Cardinality({i \in 1..(k - 1) : streams[i].codec_type = streams[k].codec_type})
NonSubCount(streams) == Cardinality({k \in 1..Len(streams) : IsNonSub(streams, k)})

\* C4: the plan holds exactly one selector per non-subtitle stream, in probe
\* order, 0:<letter>:<number of earlier streams of the same codec_type>, and
\* the selectors are pairwise distinct.
C4_NonSubMapsExact ==
    spc = "planned" =>
        LET streams == Val(pr) IN
        /\ Len(maps) = NonSubCount(streams)
        /\ \A k \in 1..Len(streams) :
              IsNonSub(streams, k) =>
                 maps[NonSubBefore(streams, k) + 1]
                     = <<0, ffmpeg_type_letter(streams[k].codec_type), SameTypeBefore(streams, k)>>
        /\ \A i, j \in 1..Len(maps) : i # j => maps[i] # maps[j]

IsSub(streams, k) == streams[k].codec_type = "subtitle"
SubsBefore(streams, k) == Cardinality({i \in 1..(k - 1) : IsSub(streams, i)})
KeptSub(streams, k) ==
    /\ IsSub(streams, k)
    /\ ~IsNone(keep)
    /\ in_list(classify_subtitle(streams[k].title, streams[k].language, streams[k].forced),
               Val(keep))
KeptSubs(streams) == {k \in 1..Len(streams) : KeptSub(streams, k)}

\* C5: the plan maps the subtitle stream with relative index r, as 0:s:r, if
\* and only if its classification is in the keep-set, each once and in probe
\* order; with no keep-set or an empty one it maps no subtitle; and it holds
\* as many non-subtitle selectors as the input has non-subtitle streams.
C5_KeepMapsExact ==
    spc = "planned" =>
        LET streams == Val(pr) IN
        /\ \A k \in 1..Len(streams) :
              IsSub(streams, k) =>
                 (in_list(<<0, "s", SubsBefore(streams, k)>>, keep_maps)
                     <=> KeptSub(streams, k))
        /\ Len(keep_maps) = Cardinality(KeptSubs(streams))
        /\ \A i, j \in 1..Len(keep_maps) : i < j => keep_maps[i][3] < keep_maps[j][3]
        /\ ((IsNone(keep) \/ keep = Some(<<>>)) => keep_maps = <<>>)
        /\ Len(maps) = NonSubCount(streams)

\* a full subtitle first, a forced one second, only the forced one kept
C5_Witness ==
    /\ spc = "planned"
    /\ keep = Some(<<"forced">>)
    /\ keep_maps = << <<0, "s", 1>> >>
    /\ Len(maps) = 1

\* C6: exporting a relative index the file does not have never returns a
\* path, ends in an error once both commands have run, and every command
\* issued maps 0:s:<rel_sub_index> and nothing else.
C6_MissingIndexRaises ==
    rel_sub_index >= Len(e_subs) =>
        /\ epc # "returned"
        /\ (Len(cmds) = 2 => epc = "raised")
        /\ \A i \in 1..Len(cmds) : cmds[i].maps = << <<0, "s", rel_sub_index>> >>

C6_Witness ==
    /\ epc = "raised" /\ Len(cmds) = 2
    /\ Len(e_subs) = 2 /\ rel_sub_index = 2

\* the candidates in the order the preference gives
SourceOrder(prefer) ==
    IF prefer THEN <<"vendor", "custom", "system">> ELSE <<"custom", "system", "vendor">>
ValidAt(seen, src) ==
    CASE src = "custom" -> seen.custom
      [] src = "vendor" -> seen.vendor
      [] src = "system" -> seen.system

\* C7: find_ffbin returns the first valid candidate in the order vendored,
\* custom, system when prefer_bundled is true and custom, system, vendored
\* when it is false.
C7_FirstValidInOrder ==
    (~IsNone(found) /\ Val(found).outcome = "returned") =>
        LET f == Val(found)
            order == SourceOrder(f.seen.prefer) IN
        \E i \in 1..3 :
            /\ ValidAt(f.seen, order[i])
            /\ \A j \in 1..(i - 1) : ~ValidAt(f.seen, order[j])
            /\ f.path = Some(<<order[i], f.name>>)

\* prefer_bundled false, custom and vendored both valid: the custom path
C7_Witness ==
    /\ ~IsNone(found)
    /\ Val(found).seen = [prefer |-> FALSE, custom |-> TRUE, vendor |-> TRUE, system |-> FALSE]
    /\ Val(found).path = Some(<<"custom", "ffmpeg">>)

\* C8: find_ffbin raises exactly when no candidate is valid at the call, and
\* a returned path is a candidate valid at that call.
C8_RaisesIffNoneValid ==
    ~IsNone(found) =>
        LET f == Val(found) IN
        /\ (f.outcome = "raised" <=> ~(f.seen.custom \/ f.seen.vendor \/ f.seen.system))
        /\ (f.outcome = "returned" =>
               /\ ~IsNone(f.path)
               /\ Val(f.path)[2] = f.name
               /\ ValidAt(f.seen, Val(f.path)[1]))

\* the system binary was there, and is gone at this call
C8_Witness ==
    /\ ~IsNone(found)
    /\ Val(found).outcome = "raised"
    /\ Val(found).name = "ffprobe"
    /\ system_path["ffmpeg"] /\ ~system_path["ffprobe"]

\* the titles of TitleTexts in which a keyword occurs, whatever the case
KeywordTitles ==
    { <<"S","i","g","n","s"," ","&"," ","S","o","n","g","s">>,
      <<"F","O","R","C","E","D">>,
      <<"e","n","f","o","r","c","e","d","!">>,
      <<"Z","w","a","n","g","s","u","n","t","e","r","t","i","t","e","l">>,
      <<"K","a","r","a","o","k","e"," ","S","O","N","G","S">> }

\* C9: the result is forced if the flag is set, else forced if the title
\* holds one of the keywords in any case, else full; a None title counts as
\* empty; the language changes nothing.
C9_ClassifyRule ==
    ~IsNone(c_result) =>
        Val(c_result) =
            IF c_forced \/ (~IsNone(c_title) /\ Val(c_title) \in KeywordTitles)
            THEN "forced" ELSE "full"

C9_Witness ==
    /\ c_result = Some("forced")
    /\ ~c_forced
    /\ c_title = Some(<<"K","a","r","a","o","k","e"," ","S","O","N","G","S">>)
    /\ c_language = None

\* C10: with a callback and a known positive total duration, the callback
\* values of a finished run end in exactly one 100.
C10_EndsInExactlyOne100 ==
    (ppc \in {"returned", "raised"} /\ on_progress /\ ~IsNone(total) /\ Val(total) > 0)
        => /\ Len(calls) >= 1
           /\ calls[Len(calls)] = 100
           /\ (Len(calls) >= 2 => calls[Len(calls) - 1] # 100)

\* the encoder process was started and has exited
ProcessExited == ~IsNone(ret)

\* C11: while the encoder runs, no two consecutive invocations of the
\* callback carry the same value (the initial 0 included).
C11_NoConsecutiveDuplicates ==
    ppc = "reading" => \A i \in 1..(Len(calls) - 1) : calls[i] # calls[i + 1]

\* C12: once the process has exited and the run has gone past the final
\* callback, a callback that was given has 100 as its last value, whatever
\* the exit code; the run ends in the error exactly when the exit code is
\* non-zero, and the error is raised after the final callback only.
C12_Final100ThenRaise ==
    ProcessExited =>
        /\ (ppc \in {"reported", "returned", "raised"} /\ on_progress)
               => (Len(calls) >= 1 /\ calls[Len(calls)] = 100)
        /\ ppc = "raised" => Val(ret) # 0
        /\ ppc = "returned" => Val(ret) = 0
        /\ ppc = "exited" => IsNone(p_err)

C12_Witness ==
    /\ ppc = "raised" /\ ret = Some(1) /\ on_progress
    /\ calls = <<0, 50, 100>>

\* C13: the error raised for a non-zero exit carries the command line that
\* was run and the stderr text read from the process.
C13_ErrorCarriesCommandAndStderr ==
    (ppc = "raised" /\ ProcessExited /\ nread > 0) =>
        /\ Val(p_err).cmd = Some(p_cmd)
        /\ ~IsNone(Val(p_err).stderr)

\* C19: a duration that cannot be obtained never ends the run before the
\* encoder was started: the run raises only after the process has exited.
C19_MissingDurationNeverRaises ==
    ppc = "raised" => ProcessExited

\* C17: the path returned by export_subtitle is named from the stem, the
\* language of the exported stream and its forced/full classification.
C17_NameReflectsLanguageAndKind ==
    epc = "returned" =>
        LET out == Val(e_out)
            sub == e_subs[rel_sub_index + 1]
        IN  /\ out.stem = "movie"
            /\ {"language", "kind"} \subseteq DOMAIN out
            /\ Some(out.language) = sub.language
            /\ out.kind = classify_subtitle(None, sub.language, sub.forced)

\* the positions of the listing's entries that carry a codec_type
TypedEntries == {k \in 1..Len(listing) : ~IsNone(listing[k].codec_type)}

\* the position in the listing of the i-th entry that carries a codec_type
NthTyped(i) ==
    CHOOSE k \in TypedEntries : Cardinality({m \in TypedEntries : m < k}) = i - 1

\* C20: the streams of a probe result are the listing's entries that carry
\* a codec_type, in the listing's order, and their absolute indexes are
\* pairwise distinct, whether or not an entry carries an index.
C20_DistinctIndexesInOrder ==
    ~IsNone(pr) =>
        LET streams == Val(pr) IN
        /\ Len(streams) = Cardinality(TypedEntries)
        /\ \A i \in 1..Len(streams) :
              /\ streams[i].codec_type = Val(listing[NthTyped(i)].codec_type)
              /\ streams[i].title = listing[NthTyped(i)].title
        /\ \A i, j \in 1..Len(streams) :
              i # j => streams[i].index # streams[j].index

\* the dispositions of the command for one type letter
DispositionsOf(letter) ==
    SelectSeq(Val(m_cmd).dispositions, LAMBDA d : d[1] = letter)

\* the output's track count of a type: embedded in the base video plus attached
TrackCount(codec_type, files) ==
    Cardinality({k \in 1..Len(m_listing) : m_listing[k].codec_type = Some(codec_type)})
    + Len(files)

\* every ordinal below n has exactly one disposition, in ordinal order, flagged
\* default exactly when it is the requested index
DispositionsExact(letter, n, default_index) ==
    LET ds == DispositionsOf(letter) IN
    /\ Len(ds) = n
    /\ \A i \in 1..n :
          /\ ds[i][2] = i - 1
          /\ ds[i][3] = (IF default_index = Some(i - 1) THEN "default" ELSE "0")
    /\ Cardinality({i \in 1..Len(ds) : ds[i][3] = "default"}) <= 1
    /\ (IsNone(default_index) \/ Val(default_index) \notin 0..(n - 1))
           => \A i \in 1..Len(ds) : ds[i][3] = "0"

\* C18: the command of create_mkv takes the base video, the attached audio
\* files and the attached subtitle files as inputs in that order and maps
\* each of them; it carries one disposition for every audio ordinal and
\* every subtitle ordinal of the output, default for the requested index
\* and "0" for every other, so at most one track of a type is default and
\* none when the index is None or out of range.
C18_MapsAndDispositions ==
    ~IsNone(m_cmd) =>
        /\ Val(m_cmd).inputs = <<"video">> \o audio_files \o subtitle_files
        /\ Val(m_cmd).maps = [i \in 1..(1 + Len(audio_files) + Len(subtitle_files)) |-> i - 1]
        /\ DispositionsExact("a", TrackCount("audio", audio_files), default_audio_index)
        /\ DispositionsExact("s", TrackCount("subtitle", subtitle_files),
                             default_subtitle_index)
        /\ Len(Val(m_cmd).dispositions) =
               Len(DispositionsOf("a")) + Len(DispositionsOf("s"))

C18_Witness ==
    /\ mpc = "returned"
    /\ TrackCount("audio", <<>>) = 1 /\ Len(audio_files) = 2
    /\ default_audio_index = Some(2)
    /\ default_subtitle_index = Some(3) /\ Len(subtitle_files) = 1
    /\ Val(m_cmd).dispositions =
           << <<"a", 0, "0">>, <<"a", 1, "0">>, <<"a", 2, "default">>, <<"s", 0, "0">> >>

\* a worker whose run is executing
InRun(w) == workers[w].at \in {"loop", "file"}

\* C14: at most one BatchWorker.run executes at any time, and a worker's
\* thread is started only when every earlier worker's thread has finished.
C14_OneRunAtATime ==
    /\ Cardinality({w \in 1..Len(workers) : InRun(w)}) <= 1
    /\ \A w \in 1..Len(workers) : w < Len(workers) => workers[w].at = "finished"

C14_Witness ==
    /\ Len(workers) = 2
    /\ workers[1].at = "finished" /\ workers[1].stop
    /\ Len(workers[1].begun) = 1 /\ workers[1].files = 2
    /\ InRun(2)

\* the signals of one kind a worker has emitted
SignalsOf(w, kind) == SelectSeq(workers[w].signals, LAMBDA sig : sig[1] = kind)

\* the worker's run was taken up and has returned
RunEnded(w) ==
    \/ workers[w].at = "idle"
    \/ workers[w].at = "finished" /\ workers[w].signals # <<>>

\* C15: once a worker's stop flag is set no further file is begun; the file
\* in flight is completed and counted, and when run has returned finished
\* was emitted exactly once, with processed + errors equal to the number
\* of files begun.
C15_StopFinishesCurrentFileOnly ==
    /\ [](\A w \in 1..Len(workers) :
             (workers[w].stop /\ RunEnded(w)) =>
                 /\ Len(SignalsOf(w, "finished")) = 1
                 /\ workers[w].signals[Len(workers[w].signals)] =
                        <<"finished", workers[w].processed, workers[w].errors>>
                 /\ workers[w].processed + workers[w].errors = Len(workers[w].begun))
    /\ [][\A w \in 1..Len(workers) :
             workers[w].stop => workers'[w].begun = workers[w].begun]_vars

C15_Witness ==
    \E w \in 1..Len(workers) :
        /\ workers[w].stop /\ workers[w].at = "finished"
        /\ workers[w].files = 2 /\ workers[w].begun = <<1>>
        /\ workers[w].errors = 1 /\ workers[w].processed = 0
        /\ Len(SignalsOf(w, "finished")) = 1

\* C16: a run that was not asked to stop has, when it returns, begun every
\* file of its list once and in list order, emitted exactly one error
\* signal for every file whose operation failed, and reported
\* processed + errors = number of files.
C16_EveryFileOnceAndEveryFailureReported ==
    \A w \in 1..Len(workers) :
        (~workers[w].stop /\ RunEnded(w)) =>
            /\ workers[w].begun = [k \in 1..workers[w].files |-> k]
            /\ \A k \in 1..workers[w].files :
                  Len(SelectSeq(workers[w].signals, LAMBDA sig : sig = <<"error", k>>))
                      = (IF k \in workers[w].failed THEN 1 ELSE 0)
            /\ Len(SignalsOf(w, "finished")) = 1
            /\ workers[w].processed + workers[w].errors = workers[w].files

\* the label of the source a path of find_ffbin comes from
LabelOf(src) ==
    CASE src = "vendor" -> "bundled"
      [] src = "custom" -> "custom"
      [] src = "system" -> "system"

\* C21: when the availability of each source is the same for ffmpeg and
\* ffprobe, detect_origin returns the label of the source find_ffbin
\* returns, and "missing" exactly when find_ffbin raises.
C21_OriginFollowsFindFfbin ==
    (~IsNone(origin) /\ Val(origin).seen["ffmpeg"] = Val(origin).seen["ffprobe"]) =>
        LET o == Val(origin) IN
        \A n \in Tools :
            /\ (o.label = "missing" <=> o.find[n].outcome = "raised")
            /\ (o.find[n].outcome = "returned" => o.label = LabelOf(Val(o.find[n].path)[1]))

\* the GUI thread is inside a call of stop made by the given caller
InStopOf(caller) == gui # <<>> /\ Head(gui)[1] \in {"stop_req", "stop_wait"} /\ Head(gui)[2] = caller

\* C22: when _on_worker_finished has run its stop, no worker that was
\* started during the emission of finished has its stop flag set or its
\* thread told to quit.
C22_NextStepWorkerNotStopped ==
    (InStopOf("finished") /\ Head(gui)[1] = "stop_wait") =>
        \A w \in 1..Len(workers) :
            w > Head(gui)[3] => (~workers[w].stop /\ ~workers[w].quit)

\* C23: once the user has canceled and the stop of the cancel has been
\* requested, no worker begins a further file, in this step or a later one.
C23_NoFileAfterCancel ==
    [][(progress_dialog = "canceled" /\ ~(InStopOf("cancel") /\ Head(gui)[1] = "stop_req"))
           => \A w \in 1..Len(workers) : workers'[w].begun = workers[w].begun]_vars

\* C24: in every mode a file whose operation failed is counted in errors,
\* has its error signal and is not counted in processed.
C24_FailedFileIsAnError ==
    \A w \in 1..Len(workers) :
        workers[w].at # "file" =>
            /\ workers[w].errors = Cardinality(workers[w].failed)
            /\ workers[w].processed = Len(workers[w].begun) - Cardinality(workers[w].failed)
            /\ \A k \in workers[w].failed :
                  \E n \in 1..Len(workers[w].signals) : workers[w].signals[n] = <<"error", k>>

\* the positions before the swap
PreSwap == {"start", "probed", "planned"}

\* C25: the swap is entered only from a planned call whose mux left the
\* complete output, probe and plan having been done; every step before the
\* swap, a failing probe, an unresolved ffmpeg and a failing mux included,
\* leaves the original file and the .bak path as they were.
C25_SwapOnlyAfterSuccessfulMux ==
    /\ [](MuxSucceeded =>
             /\ ~IsNone(pr)
             /\ maps = build_non_sub_maps(Val(pr))
             /\ keep_maps = build_keep_maps(Val(pr), keep))
    /\ [][/\ spc \in PreSwap => (orig' = orig /\ bak' = bak)
          /\ spc' = "probed" => (spc = "start" /\ ~IsNone(pr'))
          /\ spc' = "planned" => spc = "probed"
          /\ (spc \in PreSwap /\ spc' \notin PreSwap \cup {"raised"})
                => (spc = "planned" /\ spc' = "muxed" /\ tmp' = "muxed")]_vars

C25_Witness ==
    /\ spc = "raised" /\ err = Some("CalledProcessError") /\ ~IsNone(pr) /\ maps # <<>>
    /\ tmp = "partial" /\ orig = "pristine" /\ bak = "stale"

\* C28: when both renames have succeeded (the operation returned, or only the
\* deletion of the backup failed afterwards), the operation ends with the
\* muxed content at the original path.
C28_MuxedStaysAfterBothRenames ==
    (StripEnded /\ (spc = "returned" \/ "unlink_backup" \in failed)) => orig = "muxed"

\* C29: after the operation returned, neither the .bak path nor the temporary
\* path holds a file, with or without a stale .bak before the call.
C29_NoLeftoverOnReturn ==
    spc = "returned" => (bak = "absent" /\ tmp = "absent")

C29_Witness ==
    spc = "returned" /\ bak_before = "stale" /\ bak = "absent" /\ tmp = "absent" /\ orig = "muxed"

\* C30: in every state of the call, a kill and the rollback included, as long
\* as the original path does not hold the muxed file the pristine content is
\* at the original path or at the .bak path.
C30_PristineNeverLost ==
    orig # "muxed" => (orig = "pristine" \/ bak = "pristine")

C30_Witness ==
    spc = "restoring" /\ failed = {"rename_tmp"} /\ orig = "absent" /\ bak = "pristine"

\* the selector and the name the call is about
ExportSelector == << <<0, "s", rel_sub_index>> >>
SrtOut == [stem |-> "movie", sub |-> rel_sub_index, ext |-> "srt"]

\* C26: the first command run is the srt command for 0:s:<rel>; a second
\* command is run if and only if the first exited non-zero, it is the stream
\* copy of the same selector into the same name with extension sup, and there
\* is no third; a returned path is the output of the last command run, which
\* exited 0; when the retry exits non-zero the call raises.
C26_SrtThenOneCopyRetry ==
    /\ Len(cmds) <= 2 /\ Len(exits) = Len(cmds)
    /\ Len(cmds) >= 1 => cmds[1] = [maps |-> ExportSelector, codec |-> "srt", out |-> SrtOut]
    /\ Len(cmds) = 2 =>
          /\ exits[1] # 0
          /\ cmds[2] = [maps |-> ExportSelector, codec |-> "copy",
                        out |-> [SrtOut EXCEPT !.ext = "sup"]]
    /\ (epc \in {"returned", "raised"} /\ Len(cmds) >= 1 /\ exits[1] # 0) => Len(cmds) = 2
    /\ epc = "returned" =>
          /\ Len(cmds) >= 1
          /\ exits[Len(exits)] = 0
          /\ e_out = Some(cmds[Len(cmds)].out)
    /\ (Len(cmds) = 2 /\ exits[2] # 0) => epc = "raised"

\* an image subtitle: the srt run fails, the copy into .sup succeeds
C26_Witness ==
    /\ epc = "returned" /\ exits = <<1, 0>>
    /\ e_subs[rel_sub_index + 1].codec = "image"
    /\ Val(e_out).ext = "sup"

\* no two streams of the list carry the same absolute index
UniqueIndexes(streams) ==
    \A i, j \in 1..Len(streams) : i # j => streams[i].index # streams[j].index

\* C27: on a probed list with unique absolute indices, for every subtitle
\* stream the sub index of its row in the stream table, the number in the
\* selector remove_subtitles_and_replace builds for it (for the kept ones of
\* the call, and for all of them when every kind is kept) and
\* _relative_index_for_type of its absolute index are the same number, the
\* count of the subtitle streams before it.
C27_RelativeIndexAgrees ==
    (~IsNone(rows) /\ ~IsNone(pr) /\ UniqueIndexes(Val(pr))) =>
        LET streams == Val(pr)
            table == Val(rows)
            all_kept == build_keep_maps(streams, Some(<<"forced", "full">>))
        IN  /\ Len(table) = Cardinality({k \in 1..Len(streams) : IsSub(streams, k)})
            /\ Len(all_kept) = Len(table)
            /\ \A k \in 1..Len(streams) :
                  IsSub(streams, k) =>
                     LET n == SubsBefore(streams, k) IN
                     /\ table[n + 1].index = streams[k].index
                     /\ table[n + 1].sub_idx = n
                     /\ all_kept[n + 1] = <<0, "s", table[n + 1].sub_idx>>
                     /\ relative_index_for_type(streams, streams[k].index, "subtitle")
                            = table[n + 1].sub_idx
                     /\ (spc = "planned" /\ KeptSub(streams, k))
                            => in_list(<<0, "s", table[n + 1].sub_idx>>, keep_maps)

\* a video stream, then a full and a forced subtitle, the forced one kept
C27_Witness ==
    /\ spc = "planned" /\ ~IsNone(rows) /\ UniqueIndexes(Val(pr))
    /\ Len(Val(rows)) = 2
    /\ Val(rows)[2].index = 2 /\ Val(rows)[2].sub_idx = 1 /\ Val(rows)[2].cls = "forced"
    /\ keep_maps = << <<0, "s", 1>> >>
====
